---- MODULE Spec2Model ----
(***************************************************************************)
(* A model of three classes of UQpy:                                       *)
(*   - Criterion (sampling/latin_hypercube_criteria/baseclass/Criterion.py)*)
(*   - Distribution (distributions/baseclass/Distribution.py)              *)
(*   - ExpectedImprovement (sampling/adaptive_kriging_functions/...)       *)
(*                                                                         *)
(* numpy's arrays hold binary floating-point numbers.  The model keeps     *)
(* the arithmetic and shortens the significand: a float has Precision      *)
(* significant bits and every operation rounds its exact result to the     *)
(* nearest float, ties to the even significand, as IEEE 754 does with 53   *)
(* bits.  A float x is held as the integer x * Unit.  A uniform draw is    *)
(* one of the floats k / Grid with 0 <= k < Grid, so a draw is never 1.    *)
(***************************************************************************)
EXTENDS Integers, Sequences, FiniteSets, TLC

VARIABLES crit, gens, hist, call, dist, dcall, ei

vars == <<crit, gens, hist, call, dist, dcall, ei>>

(***************************************************************************)
(* Bounds of the model.                                                    *)
(***************************************************************************)
MaxN == 3
MaxD == 2
Precision == 4

RECURSIVE Pow2(_)
Pow2(k) == IF k = 0 THEN 1 ELSE 2 * Pow2(k - 1)

\* The draws are the multiples of 1/Grid below 1 (numpy: of 2^-53).
Grid == Pow2(Precision)

\* The integer that stands for 1.0.  Every float the operations below meet
\* is a whole multiple of 1/Unit: a cut point or a width is one of
\* 2^-(Precision+2) for up to 7 strata, its product with a draw one of
\* 2^-(2*Precision+2).
Unit == Pow2(2 * Precision + 3)

\* The nearest integer to num/den, a tie going to the even one.
RoundHalfEven(num, den) ==
    LET f == num \div den
        r == num % den
    IN IF 2 * r < den THEN f
       ELSE IF 2 * r > den THEN f + 1
       ELSE IF f % 2 = 0 THEN f ELSE f + 1

\* The smallest significand of a normal float, and the spacing of the
\* floats from 1.0 up.
HalfGrid == Pow2(Precision - 1)
TopQuantum == Unit \div HalfGrid

\* The spacing of the floats around num/den >= 0: the power of two q with
\* HalfGrid * q <= num/den < Grid * q, searched from q down.
RECURSIVE Quantum(_, _, _)
Quantum(num, den, q) ==
    IF q = 1 \/ num >= q * HalfGrid * den
    THEN q
    ELSE Quantum(num, den, q \div 2)

\* The float nearest to num/den, for 0 <= num/den < 2 * Unit.
fl(num, den) ==
    LET q == Quantum(num, den, TopQuantum)
    IN q * RoundHalfEven(num, den * q)

\* x / n, k * x, x - y, x + y and (k/Grid) * x in floating point.
fdiv(x, n) == fl(x, n)
fscale(k, x) == fl(k * x, 1)
fsub(x, y) == fl(x - y, 1)
fadd(x, y) == fl(x + y, 1)
fdraw(k, x) == fl(k * x, Grid)

Rows == 0..MaxN
Cols == 0..MaxD

(***************************************************************************)
(* Python values.                                                          *)
(***************************************************************************)
NoneVal == [kind |-> "None"]
IntVal(k) == [kind |-> "int", v |-> k]
GenRef(g) == [kind |-> "RandomState", id |-> g]
StrVal == [kind |-> "str"]
Unset == [kind |-> "unset"]

Scalar(k) == [kind |-> "scalar", v |-> <<k>>]
Array(s) == [kind |-> "array", v |-> s]
Matrix(n, d, f) == [shape |-> <<n, d>>, v |-> f]

\* np.zeros(shape=(n, d))
zerosTransposed(n, d) == Matrix(d, n, [r \in 1..n |-> [c \in 1..d |-> 0]])
zeros(n, d) == Matrix(n, d, [r \in 1..n |-> [c \in 1..d |-> 0]])

(***************************************************************************)
(* numpy.random.RandomState: a deterministic stream.  The state of a       *)
(* generator is a position in a cycle of length Period; seeding fixes the  *)
(* starting position, every draw advances it by one step and returns the   *)
(* grid point Output of the new position.                                  *)
(***************************************************************************)
Period == 3

\* RandomState(seed) takes 0 <= seed < 2^32 and raises ValueError otherwise;
\* the integers of the model stay below the upper end.
ValidSeed(k) == 0 <= k
Seeded(k) == (2 * k + 1) % Period
Step(s) == (s + 1) % Period
Output(s) == ((Grid - 1) * s * s) % Grid

\* The position after k draws: k times Step.
Advance(s, k) == (s + k) % Period

\* The generator objects on the heap: numpy's process-wide generator
\* "global" (seeded from the system's entropy when the process starts), the
\* caller's own generator "ext", and the one instance i's constructor builds
\* from an integer seed.
Instances == {1, 2}
GenIds == {"global", "ext", "own1", "own2"}
Own(i) == IF i = 1 THEN "own1" ELSE "own2"
NoGen == [kind |-> "unallocated"]
GenState(s) == [kind |-> "state", s |-> s]

Absent == [status |-> "absent", a |-> Unset, b |-> Unset, samples |-> Unset,
           random_state |-> Unset]

NoCall == [op |-> "none", self |-> 0, shape |-> <<0, 0>>, raised |-> "none",
           ret |-> NoneVal]
\* What is remembered of an instance's past: the constructor's argument, and
\* whether create_bins has run never (0), once (1) or more often (2).
NoHist == [arg |-> Unset, calls |-> 0]

(***************************************************************************)
(* Criterion.__init__, behind the check_random_state decorator.            *)
(***************************************************************************)
\* The decorator of UQpy.utilities.validation: the three supported kinds of
\* random_state pass, anything else is rejected before the body runs.
check_random_state(arg) == arg.kind \in {"None", "int", "RandomState"}

\* Lines 11-13: the fields before any bins exist.
InitFieldsArrays ==
    [a |-> Array(<<>>), b |-> Array(<<>>), samples |-> zeros(0, 0)]
InitFields == [a |-> Scalar(0), b |-> Scalar(0), samples |-> zeros(0, 0)]

\* Lines 15-16: an int is replaced by a generator built from it, any other
\* value is stored as it came.
WrapNever(i, arg) == arg
WrapShared(i, arg) == IF arg.kind = "int" THEN GenRef("ext") ELSE arg
init_random_state(i, arg) == IF arg.kind = "int" THEN GenRef(Own(i)) ELSE arg

\* np.random.RandomState(seed): the new generator's state, for a seed numpy
\* accepts.
RandomState(seed) == GenState(Seeded(seed))

Criterion__init__(i, arg) ==
    /\ crit[i].status = "absent"
    /\ hist' = [hist EXCEPT ![i] = [arg |-> arg, calls |-> 0]]
    /\ IF ~check_random_state(arg)
       THEN /\ crit' = [crit EXCEPT ![i].status = "failed"]
            /\ call' = [NoCall EXCEPT !.op = "__init__", !.self = i,
                                      !.raised = "ConfigurationError"]
            /\ UNCHANGED gens
       ELSE IF arg.kind = "int" /\ ~ValidSeed(arg.v)
       THEN /\ crit' = [crit EXCEPT ![i] =
                          [status |-> "failed", a |-> InitFields.a,
                           b |-> InitFields.b, samples |-> InitFields.samples,
                           random_state |-> arg]]
            /\ call' = [NoCall EXCEPT !.op = "__init__", !.self = i,
                                      !.raised = "ValueError"]
            /\ UNCHANGED gens
       ELSE /\ crit' = [crit EXCEPT ![i] =
                          [status |-> "ok", a |-> InitFields.a,
                           b |-> InitFields.b, samples |-> InitFields.samples,
                           random_state |-> init_random_state(i, arg)]]
            /\ gens' = IF arg.kind = "int"
                       THEN [gens EXCEPT ![Own(i)] = RandomState(arg.v)]
                       ELSE gens
            /\ call' = [NoCall EXCEPT !.op = "__init__", !.self = i]
    /\ UNCHANGED <<dist, dcall, ei>>

(***************************************************************************)
(* Criterion.create_bins                                                   *)
(***************************************************************************)
\* np.linspace(0, 1, num), both ends included: step = 1 / (num - 1), the
\* points are arange(num) * step, and the last one is then set to 1.  A
\* single point is 0.
LinspaceOpen(num) == [k \in 1..num |-> fscale(k - 1, fdiv(Unit, num))]
linspace(num) ==
    [k \in 1..num |->
        IF num = 1 THEN 0
        ELSE IF k = num THEN Unit
        ELSE fscale(k - 1, fdiv(Unit, num - 1))]

\* Python's seq[lo:hi] for 0 <= lo <= hi <= len.
Slice(s, lo, hi) == [k \in 1..(hi - lo) |-> s[lo + k]]

\* Line 34, one row: u * (b - a) + a, the draws of the row being the
\* u = k / Grid and width the float b - a of the row.
Stratify(draws, lo, width) ==
    [c \in DOMAIN draws |-> fadd(fdraw(draws[c], width), lo)]

\* Lines 31-33: column c takes the next n draws of the generator, so entry
\* (r, c) is draw number (c-1)*n + r of the call.
StreamDraws(s, n, d) ==
    [r \in 1..n |-> [c \in 1..d |-> Output(Advance(s, (c - 1) * n + r))]]

\* Line 33, random_state=...: scipy draws from the generator it is given,
\* and from numpy's process-wide generator when it is given None.
Source(rs) == IF rs.kind = "RandomState" THEN rs.id ELSE "global"

create_bins(i, n, d) ==
    /\ crit[i].status = "ok"
    /\ LET cut == linspace(n + 1)
           a == Slice(cut, 0, n)
           b == Slice(cut, 1, n + 1)
           g == Source(crit[i].random_state)
           u == StreamDraws(gens[g].s, n, d)
       IN /\ crit' = [crit EXCEPT
                ![i].a = Array(a),
                ![i].b = Array(b),
                ![i].samples = [zeros(n, d) EXCEPT !.v =
                    [r \in 1..n |->
                        Stratify(u[r], a[r], fsub(b[r], a[r]))]]]
          /\ gens' = [gens EXCEPT ![g] = GenState(Advance(gens[g].s, n * d))]
    /\ hist' = [hist EXCEPT ![i].calls = IF @ = 0 THEN 1 ELSE 2]
    /\ call' = [NoCall EXCEPT !.op = "create_bins", !.self = i,
                              !.shape = <<n, d>>]
    /\ UNCHANGED <<dist, dcall, ei>>

(***************************************************************************)
(* Criterion.generate_samples: abstract in the base class.  A variant's    *)
(* implementation is held to the contract of the specification: it needs   *)
(* the bounds of create_bins and returns an n x d matrix.                  *)
(***************************************************************************)
BinsReady(c) == c.a.kind = "array" /\ c.b.kind = "array"

generate_samples(i) ==
    /\ crit[i].status = "ok"
    /\ call' = IF BinsReady(crit[i])
               THEN [NoCall EXCEPT !.op = "generate_samples", !.self = i,
                       !.ret = [kind |-> "matrix",
                                shape |-> crit[i].samples.shape]]
               ELSE [NoCall EXCEPT !.op = "generate_samples", !.self = i,
                       !.raised = "StateError"]
    /\ UNCHANGED <<crit, gens, hist, dist, dcall, ei>>

(***************************************************************************)
(* Distribution.  A keyword dictionary **kwargs keeps the order of the     *)
(* call, so it is a sequence of <<name, value>> pairs with distinct names. *)
(***************************************************************************)
RecursionLimit == 5

Names == {"loc", "scale"}
Keys == Names \cup {"shape"}
Values == {0, 1}

Returns(v) == [raised |-> "none", value |-> v]
Raises(e) == [raised |-> e, value |-> NoneVal]

KeysOf(kw) == {kw[k][1] : k \in 1..Len(kw)}
Distinct(kw) == \A j, k \in 1..Len(kw) : j # k => kw[j][1] # kw[k][1]
KwArgs(keys) ==
    {kw \in UNION {[1..l -> keys \X Values] : l \in 0..Cardinality(keys)} :
        Distinct(kw)}

\* dict(kwargs), tuple(kwargs.keys()), a list argument, len(x)
Dict(kw) ==
    [kind |-> "dict",
     v |-> [n \in KeysOf(kw) |-> kw[CHOOSE k \in 1..Len(kw) : kw[k][1] = n][2]]]
KeysTuple(kw) == [kind |-> "tuple", v |-> [k \in 1..Len(kw) |-> kw[k][1]]]
List(names) == [kind |-> "list", v |-> names]
len(x) == IF x.kind = "dict" THEN Cardinality(DOMAIN x.v) ELSE Len(x.v)

NameLists == UNION {[1..l -> Names] : l \in 0..Cardinality(Names)}
OrderedArgs == {NoneVal} \cup {List(l) : l \in NameLists}

NewObject == [_parameters |-> Unset, _ordered_parameters |-> Unset]
NoDCall == [op |-> "none", ordered |-> NoneVal, kwargs |-> <<>>,
            before |-> Unset, raised |-> "none", ret |-> NoneVal]

\* Lines 67-73, 75-82: each property getter returns the property itself, so
\* evaluating it calls the getter again, one interpreter frame deeper, until
\* the interpreter's frame limit raises RecursionError.
RECURSIVE ordered_parameters_get(_, _)
ordered_parameters_get(self, depth) ==
    IF depth >= RecursionLimit
    THEN Raises("RecursionError")
    ELSE ordered_parameters_get(self, depth + 1)

RECURSIVE parameters_get(_, _)
parameters_get(self, depth) ==
    IF depth >= RecursionLimit
    THEN Raises("RecursionError")
    ELSE parameters_get(self, depth + 1)

\* Lines 55-65: return self.parameters
get_parameters(self, depth) ==
    IF depth >= RecursionLimit
    THEN Raises("RecursionError")
    ELSE parameters_get(self, depth + 1)

\* Lines 6-38.  The setters of lines 84-90 store the private fields; the
\* result is the object as the call leaves it and what the call raised.
Distribution__init__(ordered, kw) ==
    /\ dist = NewObject
    /\ LET s1 == [_parameters |-> Dict(kw), _ordered_parameters |-> ordered]
           r1 == ordered_parameters_get(s1, 1)
           s2 == IF r1.raised = "none" /\ r1.value = NoneVal
                 THEN [s1 EXCEPT !._ordered_parameters = KeysTuple(kw)]
                 ELSE s1
           r2 == ordered_parameters_get(s2, 1)
           r3 == parameters_get(s2, 1)
           init == [NoDCall EXCEPT !.op = "__init__", !.ordered = ordered,
                                   !.kwargs = kw]
       IN IF r1.raised # "none"
          THEN /\ dist' = s1
               /\ dcall' = [init EXCEPT !.raised = r1.raised]
          ELSE /\ dist' = s2
               /\ dcall' =
                    IF r2.raised # "none"
                    THEN [init EXCEPT !.raised = r2.raised]
                    ELSE IF r3.raised # "none"
                    THEN [init EXCEPT !.raised = r3.raised]
                    ELSE IF len(r2.value) # len(r3.value)
                    THEN [init EXCEPT !.raised = "ValueError"]
                    ELSE init
    /\ UNCHANGED <<crit, gens, hist, call, ei>>

\* Lines 40-53: the loop over the keywords, from keyword number k on.  The
\* result is the dictionary as the loop leaves it and what it raised.
RECURSIVE update_loop(_, _, _)
update_loop(self, kw, k) ==
    IF k > Len(kw)
    THEN [self |-> self, raised |-> "none"]
    ELSE LET key == kw[k][1]
             got == get_parameters(self, 2)
             target == parameters_get(self, 2)
         IN IF got.raised # "none"
            THEN [self |-> self, raised |-> got.raised]
            ELSE IF key \notin DOMAIN got.value.v
            THEN [self |-> self, raised |-> "ValueError"]
            ELSE IF target.raised # "none"
            THEN [self |-> self, raised |-> target.raised]
            ELSE update_loop(
                   [self EXCEPT !._parameters.v =
                      [n \in DOMAIN self._parameters.v |->
                         IF n = key THEN kw[k][2] ELSE self._parameters.v[n]]],
                   kw, k + 1)

update_parameters(kw) ==
    /\ dist # NewObject
    /\ LET r == update_loop(dist, kw, 1)
       IN /\ dist' = r.self
          /\ dcall' = [NoDCall EXCEPT !.op = "update_parameters",
                         !.kwargs = kw, !.before = dist._parameters,
                         !.raised = r.raised]
    /\ UNCHANGED <<crit, gens, hist, call, ei>>

\* A caller's d.get_parameters(), d.ordered_parameters, d.parameters
call_get_parameters ==
    /\ dist # NewObject
    /\ LET r == get_parameters(dist, 1)
       IN dcall' = [NoDCall EXCEPT !.op = "get_parameters",
                      !.raised = r.raised, !.ret = r.value]
    /\ UNCHANGED <<dist, crit, gens, hist, call, ei>>

read_ordered_parameters ==
    /\ dist # NewObject
    /\ LET r == ordered_parameters_get(dist, 1)
       IN dcall' = [NoDCall EXCEPT !.op = "ordered_parameters",
                      !.raised = r.raised, !.ret = r.value]
    /\ UNCHANGED <<dist, crit, gens, hist, call, ei>>

read_parameters ==
    /\ dist # NewObject
    /\ LET r == parameters_get(dist, 1)
       IN dcall' = [NoDCall EXCEPT !.op = "parameters",
                      !.raised = r.raised, !.ret = r.value]
    /\ UNCHANGED <<dist, crit, gens, hist, call, ei>>

(***************************************************************************)
(* ExpectedImprovement.evaluate_function.  The EIF column of line 68 is    *)
(* taken as computed from the surrogate's predictions: one integer score   *)
(* per candidate row.  A population holds at least one candidate.          *)
(***************************************************************************)
MaxPop == 3
MaxAdd == 4
MaxEif == 2

Fm == {-1, 0, 2}
EifStop == {0, 1}

\* ndarray.argsort(): the orders of the indices that sort the values; which
\* of two equal values comes first is not fixed.
argsort(x) ==
    {p \in [1..Len(x) -> 1..Len(x)] :
        /\ \A j, k \in 1..Len(x) : j # k => p[j] # p[k]
        /\ \A j \in 1..(Len(x) - 1) : x[p[j]] <= x[p[j + 1]]}

\* Python's seq[start:] with a start of either sign.
SliceFrom(s, start) ==
    LET st == IF start < 0
              THEN (IF Len(s) + start < 0 THEN 0 ELSE Len(s) + start)
              ELSE IF start > Len(s) THEN Len(s) ELSE start
    IN [k \in 1..(Len(s) - st) |-> s[st + k]]

Max(x) == CHOOSE v \in {x[k] : k \in 1..Len(x)} : \A k \in 1..Len(x) : x[k] <= v
Abs(v) == IF v < 0 THEN 0 - v ELSE v

\* Line 72: max(eif) / abs(fm) <= eif_stop.  A division by zero gives inf
\* (or nan for 0/0, or -inf), and only -inf compares below eif_stop.
StopIndicator(eif, fm, stop) ==
    IF fm = 0 THEN Max(eif) < 0 ELSE Max(eif) <= stop * Abs(fm)

NoReturn == [called |-> FALSE, new_samples |-> <<>>,
             learning_function_values |-> <<>>, indicator |-> FALSE]
NoEI == [constructed |-> FALSE, pop |-> 0, eif |-> <<>>, n_add |-> 0,
         fm |-> 0, eif_stop |-> 0, ret |-> NoReturn]

\* Lines 53-58.  pop is the number m of candidate rows (row k stands for
\* itself), eif the column the surrogate's predictions give on them, fm the
\* least model evaluation min(qoi).
ExpectedImprovement__init__(m, eif, n_add, fm, stop) ==
    /\ ~ei.constructed
    /\ ei' = [NoEI EXCEPT !.constructed = TRUE, !.pop = m, !.eif = eif,
                          !.n_add = n_add, !.fm = fm, !.eif_stop = stop]
    /\ UNCHANGED <<crit, gens, hist, call, dist, dcall>>

\* Lines 60-77.  new_samples holds the indices of the returned rows.
evaluate_function ==
    /\ ei.constructed
    /\ \E order \in argsort(ei.eif) :
         LET rows == SliceFrom(order, ei.pop - ei.n_add)
         IN ei' = [ei EXCEPT !.ret =
                     [called |-> TRUE,
                      new_samples |-> rows,
                      learning_function_values |->
                          [k \in 1..Len(rows) |-> ei.eif[rows[k]]],
                      indicator |->
                          StopIndicator(ei.eif, ei.fm, ei.eif_stop)]]
    /\ UNCHANGED <<crit, gens, hist, call, dist, dcall>>

(***************************************************************************)
(* Specifications.                                                         *)
(***************************************************************************)
Seeds == {-1, 0, 1}
Args == {NoneVal, StrVal, GenRef("ext")} \cup {IntVal(k) : k \in Seeds}
PairArgs == {IntVal(k) : k \in {0, 1}}

States == 0..(Period - 1)
Heap(global, ext) ==
    [g \in GenIds |-> IF g = "global" THEN GenState(global)
                      ELSE IF g = "ext" THEN GenState(ext) ELSE NoGen]

Fresh ==
    /\ crit = [i \in Instances |-> Absent]
    /\ hist = [i \in Instances |-> NoHist]
    /\ call = NoCall
    /\ dist = NewObject
    /\ dcall = NoDCall
    /\ ei = NoEI

Init == Fresh /\ \E global \in States, ext \in States : gens = Heap(global, ext)
InitFixed == Fresh /\ gens = Heap(0, 0)

\* One sampler, every kind of constructor argument.
Construct == \E arg \in Args : Criterion__init__(1, arg)
CreateBins == \E n \in Rows, d \in Cols : create_bins(1, n, d)
GenerateSamples == generate_samples(1)

Next == Construct \/ CreateBins \/ GenerateSamples

Spec == Init /\ [][Next]_vars

\* Two samplers side by side, each constructed on an integer seed.
ConstructPair == \E i \in Instances, arg \in PairArgs : Criterion__init__(i, arg)
CreateBinsPair ==
    \E i \in Instances, n \in Rows \ {0}, d \in Cols \ {0} :
        create_bins(i, n, d)

NextPair == ConstructPair \/ CreateBinsPair

SpecPair == InitFixed /\ [][NextPair]_vars

\* One Distribution object.
DistConstruct ==
    \E ordered \in OrderedArgs, kw \in KwArgs(Names) :
        Distribution__init__(ordered, kw)
DistUpdate == \E kw \in KwArgs(Keys) : update_parameters(kw)

NextDist ==
    \/ DistConstruct
    \/ DistUpdate
    \/ call_get_parameters
    \/ read_ordered_parameters
    \/ read_parameters

SpecDist == InitFixed /\ [][NextDist]_vars

\* One learning function, evaluated any number of times.
EIConstruct ==
    \E m \in 1..MaxPop :
      \E eif \in [1..m -> 0..MaxEif], n_add \in 0..MaxAdd,
         fm \in Fm, stop \in EifStop :
        ExpectedImprovement__init__(m, eif, n_add, fm, stop)

NextEI == EIConstruct \/ evaluate_function

SpecEI == InitFixed /\ [][NextEI]_vars

(***************************************************************************)
(* Properties.                                                             *)
(***************************************************************************)
Ok(i) == crit[i].status = "ok"
Shape(i) == crit[i].samples.shape
CreateBinsStep(i) == call'.op = "create_bins" /\ call'.self = i
ConstructStep(i) == crit[i].status = "absent" /\ crit'[i].status # "absent"

Width(i, k) == fsub(crit[i].b.v[k], crit[i].a.v[k])

\* What C1 says of the bounds apart from the widths: a and b have length n,
\* a starts at 0, b ends at 1, each b[k] is the next a[k+1].
Contiguous(i) ==
    LET n == Shape(i)[1]
        a == crit[i].a.v
        b == crit[i].b.v
    IN /\ Len(a) = n
       /\ Len(b) = n
       /\ a[1] = 0
       /\ b[n] = Unit
       /\ \A k \in 1..(n - 1) : b[k] = a[k + 1]

C2_SamplesInStratum ==
    \A i \in Instances :
        (Ok(i) /\ BinsReady(crit[i])) =>
            \A r \in 1..Shape(i)[1] : \A c \in 1..Shape(i)[2] :
                /\ crit[i].a.v[r] <= crit[i].samples.v[r][c]
                /\ crit[i].samples.v[r][c] < crit[i].b.v[r]

\* C3: two samplers constructed with the same integer seed and given one
\* create_bins call each, of the same shape, hold the same a, b and samples.
C3_SameSeedSameSamples ==
    \A i, j \in Instances :
        ( /\ Ok(i) /\ Ok(j)
          /\ hist[i].arg.kind = "int" /\ hist[j].arg = hist[i].arg
          /\ hist[i].calls = 1 /\ hist[j].calls = 1
          /\ Shape(i) = Shape(j) ) =>
            /\ crit[i].samples = crit[j].samples
            /\ crit[i].a = crit[j].a
            /\ crit[i].b = crit[j].b

C3_Witness ==
    /\ Ok(1) /\ Ok(2)
    /\ hist[1].arg.kind = "int" /\ hist[2].arg = hist[1].arg
    /\ hist[1].calls = 1 /\ hist[2].calls = 1
    /\ Shape(1) = <<MaxN, MaxD>> /\ Shape(2) = <<MaxN, MaxD>>

\* C4: create_bins on a matrix with no rows or no columns fails with
\* InvalidShapeError.
C4_ZeroShapeRejected ==
    (call.op = "create_bins" /\ (call.shape[1] = 0 \/ call.shape[2] = 0)) =>
        call.raised = "InvalidShapeError"

C6_Constructed(i, wrapped) ==
    LET arg == hist'[i].arg
    IN /\ (arg.kind = "int" /\ wrapped) =>
            /\ crit'[i].status = "ok"
            /\ crit'[i].random_state = GenRef(Own(i))
            /\ gens[Own(i)] = NoGen
            /\ gens'[Own(i)] = GenState(Seeded(arg.v))
            /\ \A j \in Instances \ {i} : crit'[j].random_state # GenRef(Own(i))
       /\ arg.kind = "RandomState" =>
            /\ crit'[i].status = "ok"
            /\ crit'[i].random_state = arg
            /\ gens'[arg.id] = gens[arg.id]
       /\ arg.kind = "None" =>
            /\ crit'[i].status = "ok"
            /\ crit'[i].random_state = NoneVal
       /\ arg.kind \notin {"int", "RandomState", "None"} =>
            /\ crit'[i].status = "failed"
            /\ call'.raised = "ConfigurationError"
            /\ crit'[i].random_state = Unset

\* C6, as claimed, at every construction: every integer seed is wrapped.
C6_EveryIntSeedWrapped ==
    [][\A i \in Instances : ConstructStep(i) => C6_Constructed(i, TRUE)]_vars

\* C6, amended: as above for an integer seed the generator accepts (from 0
\* up); an integer below 0 makes the construction fail with the generator's
\* ValueError.
C6_ValidIntSeedWrapped ==
    [][\A i \in Instances : ConstructStep(i) =>
          /\ C6_Constructed(i, hist'[i].arg.kind = "int" /\ ValidSeed(hist'[i].arg.v))
          /\ (hist'[i].arg.kind = "int" /\ ~ValidSeed(hist'[i].arg.v)) =>
                (crit'[i].status = "failed" /\ call'.raised = "ValueError")]_vars

C6_Witness ==
    /\ Ok(1)
    /\ call.op = "__init__"
    /\ hist[1].arg = IntVal(1)
    /\ crit[1].random_state = GenRef(Own(1))
    /\ gens[Own(1)] = GenState(Seeded(1))

\* C7, as claimed: a second create_bins call of the same shape leaves a, b
\* and samples as the first call left them.
C7_SecondCallSameState ==
    [][\A i \in Instances :
          (CreateBinsStep(i) /\ hist[i].calls >= 1 /\ call'.shape = Shape(i)) =>
              /\ crit'[i].a = crit[i].a
              /\ crit'[i].b = crit[i].b
              /\ crit'[i].samples = crit[i].samples]_vars

\* C7, amended: every create_bins call leaves a, b and samples with the
\* dimensions of that call's shape, whatever they were before, and a second
\* call of the same shape leaves a and b as the first left them (samples is
\* drawn anew).
C7_BoundsRecomputedFromShape ==
    [][\A i \in Instances : CreateBinsStep(i) =>
          LET n == call'.shape[1]
              d == call'.shape[2]
          IN /\ crit'[i].a.kind = "array" /\ Len(crit'[i].a.v) = n
             /\ crit'[i].b.kind = "array" /\ Len(crit'[i].b.v) = n
             /\ crit'[i].samples.shape = <<n, d>>
             /\ Len(crit'[i].samples.v) = n
             /\ \A r \in 1..n : Len(crit'[i].samples.v[r]) = d
             /\ (hist[i].calls >= 1 /\ call'.shape = Shape(i)) =>
                    (crit'[i].a = crit[i].a /\ crit'[i].b = crit[i].b)]_vars

C7_Witness ==
    /\ call.op = "create_bins"
    /\ hist[1].calls = 2
    /\ Shape(1) = <<1, 1>>
    /\ crit[1].a = Array(<<0>>)

\* C8: constructing a Distribution whose ordered list fits its keywords (or
\* is absent) succeeds, one whose list has another length raises ValueError,
\* and get_parameters, ordered_parameters and parameters each return the
\* stored value.
C8_ConstructAndReadTerminate ==
    /\ dcall.op = "__init__" =>
          dcall.raised =
              IF dcall.ordered # NoneVal /\ len(dcall.ordered) # Len(dcall.kwargs)
              THEN "ValueError" ELSE "none"
    /\ dcall.op \in {"get_parameters", "parameters"} =>
          (dcall.raised = "none" /\ dcall.ret = dist._parameters)
    /\ dcall.op = "ordered_parameters" =>
          (dcall.raised = "none" /\ dcall.ret = dist._ordered_parameters)

\* C9: evaluate_function returns min(n_add, m) rows, and no row left out has
\* a strictly larger EIF value than a row returned.
C9_ReturnsTopRows ==
    ei.ret.called =>
        LET rows == ei.ret.new_samples
            chosen == {rows[k] : k \in 1..Len(rows)}
        IN /\ Len(rows) = (IF ei.n_add < ei.pop THEN ei.n_add ELSE ei.pop)
           /\ Cardinality(chosen) = Len(rows)
           /\ \A j \in (1..ei.pop) \ chosen : \A k \in chosen :
                  ei.eif[j] <= ei.eif[k]

\* C10: update_parameters with a keyword that is no parameter name raises
\* ValueError and leaves the dictionary as it was, and the parameter names
\* never change.
C10_UnknownKeywordRejected ==
    dcall.op = "update_parameters" =>
        /\ DOMAIN dist._parameters.v = DOMAIN dcall.before.v
        /\ ~(KeysOf(dcall.kwargs) \subseteq DOMAIN dcall.before.v) =>
              (dcall.raised = "ValueError" /\ dist._parameters = dcall.before)

====
